---- MODULE Spec2Model ----
(***************************************************************************)
(* A model of src/mta.py: the multiplicative-to-additive share conversion  *)
(* of Haitner, Makriyannis, Ranellucci and Tsfadia (Eurocrypt 2021).       *)
(*                                                                         *)
(* The state is the Sender and the Receiver object in existence (if any)   *)
(* and the outcome of the call that has just returned: a constructor,      *)
(* Sender.ot, Receiver.v or play.  The code is single-threaded: a call     *)
(* starts once the caller has taken the outcome of the one before.  Every  *)
(* random draw of the code (randrange, sample_t) is a nondeterministic     *)
(* choice of the action.                                                   *)
(* Python lists are 0-indexed and TLA+ sequences 1-indexed: the Python     *)
(* element lst[i] is the sequence element lst[i + 1].                      *)
(***************************************************************************)
EXTENDS Integers, Sequences, FiniteSets

VARIABLES senders, receivers, last

vars == <<senders, receivers, last>>

(***************************************************************************)
(* Parameters of the model.                                                *)
(***************************************************************************)

\* The security parameter k (512 in the source), scaled down so that the
\* vectors of length n = ceil(log(q, 2)) + k can be enumerated: the parties
\* hold vectors of length 1 (q = 2) and 2 (q = 3).
k == 0

\* The moduli offered to the constructors: the primes 2 and 3 and the
\* composite 4.
Moduli == {2, 3, 4}

\* The secrets offered to the constructors: every element of Z_q for the
\* moduli above, the values q themselves, and a negative integer.
Secrets == -1 .. 4

\* The signs offered to Sender.ot: the two legal ones and two illegal ones.
Signs == {-1, 0, 1, 2}

(***************************************************************************)
(* The outcomes of a call: "ok", or the message of the exception raised.   *)
(***************************************************************************)

Ok == "ok"

\* ValueError("q must be prime")
InvalidModulus == "q must be prime"

\* ValueError("secret should be smaller than q")
SecretOutOfRange == "secret should be smaller than q"

\* ValueError("i is out of range")
IndexOutOfRange == "i is out of range"

\* ValueError("t must be 1 or -1")
InvalidSign == "t must be 1 or -1"

\* ValueError("receiver and sender q don't match")
InvalidPairing == "receiver and sender q don't match"

\* Python's own IndexError, raised by lst[i] when i < -len(lst) or i >= len(lst)
PyIndexError == "list index out of range"

(***************************************************************************)
(* Arithmetic helpers.                                                     *)
(***************************************************************************)

\* ZZ(q).is_prime()
is_prime(q) == q > 1 /\ \A d \in 2 .. (q - 1) : q % d # 0

RECURSIVE Pow2(_)
Pow2(e) == IF e = 0 THEN 1 ELSE 2 * Pow2(e - 1)

\* ceil(log(q, 2)) for q >= 1: the least e with 2^e >= q
CeilLog2(q) == CHOOSE e \in 0 .. q : Pow2(e) >= q /\ \A f \in 0 .. (e - 1) : Pow2(f) < q

\* Python's x % q for q > 0: the representative in [0, q)
PyMod(x, q) == x % q

Min(a, b) == IF a <= b THEN a ELSE b

\* sum(map(lambda x, y: x * y, xs, ys)): map stops at the shorter list
RECURSIVE DotUpTo(_, _, _)
DotUpTo(xs, ys, m) == IF m = 0 THEN 0 ELSE DotUpTo(xs, ys, m - 1) + xs[m] * ys[m]

Dot(xs, ys) == DotUpTo(xs, ys, Min(Len(xs), Len(ys)))

\* Python's lst[i]: negative indices count from the end of the list
PyInRange(lst, i) == -Len(lst) <= i /\ i < Len(lst)

PyGet(lst, i) == IF i >= 0 THEN lst[i + 1] ELSE lst[Len(lst) + i + 1]

(***************************************************************************)
(* Player, Sender and Receiver.                                            *)
(***************************************************************************)

\* Player.__init__ with its two checks in the other order.
Player__init__secret_first(secret, q) ==
    IF secret >= q THEN
        [status |-> SecretOutOfRange, secret |-> secret, q_ |-> q, n_ |-> 0]
    ELSE IF ~is_prime(q) THEN
        [status |-> InvalidModulus, secret |-> secret, q_ |-> q, n_ |-> 0]
    ELSE
        [status |-> Ok, secret |-> secret, q_ |-> q, n_ |-> CeilLog2(q) + k]

\* Player.__init__: the two checks, in the order of the code, then the
\* fields secret, q_ and n_.  The record is the outcome and, when the
\* outcome is Ok, the fields of the object.
Player__init__(secret, q) ==
    IF ~is_prime(q) THEN
        [status |-> InvalidModulus, secret |-> secret, q_ |-> q, n_ |-> 0]
    ELSE IF secret >= q THEN
        [status |-> SecretOutOfRange, secret |-> secret, q_ |-> q, n_ |-> 0]
    ELSE
        [status |-> Ok, secret |-> secret, q_ |-> q, n_ |-> CeilLog2(q) + k]

\* Sender.__init__ after Player.__init__ has succeeded: delta_ is the list
\* of the n draws of randrange(q).
SenderObject(p, delta) ==
    [secret |-> p.secret, q_ |-> p.q_, n_ |-> p.n_, delta_ |-> delta]

\* Receiver.__init__ after Player.__init__ has succeeded: t_ is the list of
\* the n draws of sample_t().
ReceiverObject(p, t) ==
    [secret |-> p.secret, q_ |-> p.q_, n_ |-> p.n_, t_ |-> t]

\* sample_t() returns 1 or -1
SampleT == {1, -1}

\* randrange(q) returns an integer of [0, q)
RandRange(q) == 0 .. (q - 1)

\* Sender.ot with the index check off by one: i > len(self.delta).
ot_off_by_one(sender, i, t) ==
    IF i > Len(sender.delta_) THEN
        [status |-> IndexOutOfRange, ret |-> <<>>]
    ELSE IF t # 1 /\ t # -1 THEN
        [status |-> InvalidSign, ret |-> <<>>]
    ELSE IF ~PyInRange(sender.delta_, i) THEN
        [status |-> PyIndexError, ret |-> <<>>]
    ELSE
        [status |-> Ok,
         ret |-> <<PyMod(sender.secret * t + PyGet(sender.delta_, i), sender.q_)>>]

\* Sender.ot with the sign applied to the mask instead of the secret.
ot_sign_on_mask(sender, i, t) ==
    IF i >= Len(sender.delta_) THEN
        [status |-> IndexOutOfRange, ret |-> <<>>]
    ELSE IF t # 1 /\ t # -1 THEN
        [status |-> InvalidSign, ret |-> <<>>]
    ELSE IF ~PyInRange(sender.delta_, i) THEN
        [status |-> PyIndexError, ret |-> <<>>]
    ELSE
        [status |-> Ok,
         ret |-> <<PyMod(sender.secret + t * PyGet(sender.delta_, i), sender.q_)>>]

\* Sender.ot(i, t): the outcome and, when it is Ok, the value returned (a
\* one-element sequence; the empty sequence when an exception is raised).
ot(sender, i, t) ==
    IF i >= Len(sender.delta_) THEN
        [status |-> IndexOutOfRange, ret |-> <<>>]
    ELSE IF t # 1 /\ t # -1 THEN
        [status |-> InvalidSign, ret |-> <<>>]
    ELSE IF ~PyInRange(sender.delta_, i) THEN
        [status |-> PyIndexError, ret |-> <<>>]
    ELSE
        [status |-> Ok,
         ret |-> <<PyMod(sender.secret * t + PyGet(sender.delta_, i), sender.q_)>>]

\* The body of Receiver.v() without its last reduction modulo q.
v_adjust_unreduced(receiver, w, rnd) ==
    LET tot == PyMod(Dot(receiver.t_, w), receiver.q_)
        targ_b == PyMod(receiver.secret - tot, receiver.q_)
    IN  [w EXCEPT ![rnd + 1] = w[rnd + 1] + targ_b * receiver.t_[rnd + 1]]

\* The body of Receiver.v(): w is the list of the n draws of
\* randrange(q), rnd the draw of randrange(n).
v_adjust(receiver, w, rnd) ==
    LET tot == PyMod(Dot(receiver.t_, w), receiver.q_)
        targ_b == PyMod(receiver.secret - tot, receiver.q_)
    IN  [w EXCEPT ![rnd + 1] =
            PyMod(w[rnd + 1] + targ_b * receiver.t_[rnd + 1], receiver.q_)]

\* Receiver.v() building its list in place of the field t_.
v_aliasing(receiver, w, rnd) ==
    [self |-> [receiver EXCEPT !.t_ = v_adjust(receiver, w, rnd)],
     ret |-> v_adjust(receiver, w, rnd)]

\* Receiver.v(): the object after the call and the list returned.  The list
\* is a local of the method; no field of the object is assigned.
v(receiver, w, rnd) ==
    [self |-> receiver, ret |-> v_adjust(receiver, w, rnd)]

(***************************************************************************)
(* play.                                                                   *)
(***************************************************************************)

\* z = [sender.ot(i, receiver.t[i]) for i in range(sender.n)]: the outcome
\* of each query; receiver.t[i] itself raises IndexError past the end of t.
Queries(receiver, sender) ==
    [j \in 1 .. sender.n_ |->
        IF j > Len(receiver.t_)
        THEN [status |-> PyIndexError, ret |-> <<>>]
        ELSE ot(sender, j - 1, receiver.t_[j])]

\* p1 without the sign.
Share1_unnegated(sender, vec) == PyMod(Dot(sender.delta_, vec), sender.q_)

\* p1 = -sum(map(lambda x, y: x * y, sender.delta, v)) % q
Share1(sender, vec) == PyMod(-Dot(sender.delta_, vec), sender.q_)

\* p2 = sum(map(lambda x, y: x * y, z, v)) % q
Share2(sender, z, vec) == PyMod(Dot(z, vec), sender.q_)

\* Lines 299-304 of play: the queries, the reconstruction vector, the two
\* shares.  An exception of a query ends the run at that query; z is the
\* list of the answers obtained, nv the number of calls of receiver.v().
play_body(receiver, sender, w, rnd) ==
    LET qs == Queries(receiver, sender)
        bad == {j \in 1 .. sender.n_ : qs[j].status # Ok}
    IN  IF bad # {} THEN
            LET first == CHOOSE j \in bad : \A j2 \in bad : j <= j2
            IN  [status |-> qs[first].status, ret |-> <<>>,
                 z |-> [j \in 1 .. (first - 1) |-> qs[j].ret[1]], nv |-> 0]
        ELSE
            LET z == [j \in 1 .. sender.n_ |-> qs[j].ret[1]]
                vec == v(receiver, w, rnd).ret
            IN  [status |-> Ok,
                 ret |-> <<Share1(sender, vec), Share2(sender, z, vec)>>,
                 z |-> z, nv |-> 1]

\* play without the comparison of the two moduli.
play_unchecked(receiver, sender, w, rnd) == play_body(receiver, sender, w, rnd)

\* play(receiver, sender)
play(receiver, sender, w, rnd) ==
    IF receiver.q_ # sender.q_ THEN
        [status |-> InvalidPairing, ret |-> <<>>, z |-> <<>>, nv |-> 0]
    ELSE
        play_body(receiver, sender, w, rnd)

(***************************************************************************)
(* The state machine.                                                      *)
(***************************************************************************)

\* The outcome of a call: the function called, its integer arguments, the
\* outcome, the integers returned and, for play, the answers collected and
\* the number of reconstruction vectors drawn.
Outcome(op, args, status, ret, z, nv) ==
    [op |-> op, args |-> args, status |-> status, ret |-> ret, z |-> z, nv |-> nv]

\* No call has returned an outcome that the caller has yet to take.
NoOutcome == Outcome("none", <<>>, Ok, <<>>, <<>>, 0)

Idle == last = NoOutcome

Init ==
    /\ senders = {}
    /\ receivers = {}
    /\ last = NoOutcome

\* s = Sender(a, q)
NewSender ==
    /\ Idle
    /\ senders = {}
    /\ \E a \in Secrets, q \in Moduli :
        LET p == Player__init__(a, q)
        IN  IF p.status # Ok THEN
                /\ senders' = senders
                /\ last' = Outcome("Sender", <<a, q>>, p.status, <<>>, <<>>, 0)
            ELSE
                \E delta \in [1 .. p.n_ -> RandRange(q)] :
                    /\ senders' = {SenderObject(p, delta)}
                    /\ last' = Outcome("Sender", <<a, q>>, Ok, <<>>, <<>>, 0)
    /\ UNCHANGED receivers

\* r = Receiver(b, q)
NewReceiver ==
    /\ Idle
    /\ receivers = {}
    /\ \E b \in Secrets, q \in Moduli :
        LET p == Player__init__(b, q)
        IN  IF p.status # Ok THEN
                /\ receivers' = receivers
                /\ last' = Outcome("Receiver", <<b, q>>, p.status, <<>>, <<>>, 0)
            ELSE
                \E t \in [1 .. p.n_ -> SampleT] :
                    /\ receivers' = {ReceiverObject(p, t)}
                    /\ last' = Outcome("Receiver", <<b, q>>, Ok, <<>>, <<>>, 0)
    /\ UNCHANGED senders

\* s.ot(i, t), for the indices from one below -n to n
Ot ==
    /\ Idle
    /\ \E s \in senders :
        \E i \in (-(s.n_ + 1)) .. s.n_, t \in Signs :
            LET r == ot(s, i, t)
            IN  last' = Outcome("ot", <<i, t>>, r.status, r.ret, <<>>, 0)
    /\ UNCHANGED <<senders, receivers>>

\* r.v()
V ==
    /\ Idle
    /\ \E r \in receivers :
        \E w \in [1 .. r.n_ -> RandRange(r.q_)], rnd \in RandRange(r.n_) :
            LET c == v(r, w, rnd)
            IN  /\ receivers' = {c.self}
                /\ last' = Outcome("v", <<>>, Ok, c.ret, <<>>, 0)
    /\ UNCHANGED senders

\* play(r, s)
Play ==
    /\ Idle
    /\ \E r \in receivers, s \in senders :
        \E w \in [1 .. r.n_ -> RandRange(r.q_)], rnd \in RandRange(r.n_) :
            LET c == play(r, s, w, rnd)
            IN  last' = Outcome("play", <<>>, c.status, c.ret, c.z, c.nv)
    /\ UNCHANGED <<senders, receivers>>

\* The caller takes the outcome of the call; the next call can start.
Return ==
    /\ ~Idle
    /\ last' = NoOutcome
    /\ UNCHANGED <<senders, receivers>>

Next == NewSender \/ NewReceiver \/ Ot \/ V \/ Play \/ Return

Spec == Init /\ [][Next]_vars

(***************************************************************************)
(* Vocabulary of the properties.                                           *)
(***************************************************************************)

\* The last call was op.
Called(op) == last.op = op

\* The last call was a constructor.
Constructed == Called("Sender") \/ Called("Receiver")

\* x is a field element: an integer of [0, q).
InField(x, q) == 0 <= x /\ x < q

\* q has a proper factorisation.
Composite(q) == \E d \in 2 .. (q - 1), e \in 2 .. (q - 1) : d * e = q

\* q is greater than 1 and has no proper factorisation.
Prime(q) == q > 1 /\ ~Composite(q)

\* t is one of the two legal signs.
LegalSign(t) == t = 1 \/ t = -1

(***************************************************************************)
(* C1.                                                                     *)
(***************************************************************************)

\* C1: whenever play has returned for an answerer with secret a and a poser
\* with secret b, both in [0, q), over the same prime q, it has returned two
\* shares (p1, p2) with (p1 + p2) mod q = (a * b) mod q, whatever the masks,
\* the signs, the sampled vector and the adjusted index were, and on every
\* one of the successive runs.
C1_EndToEnd ==
    \A s \in senders, r \in receivers :
        (/\ Called("play")
         /\ s.q_ = r.q_
         /\ Prime(s.q_)
         /\ InField(s.secret, s.q_)
         /\ InField(r.secret, r.q_))
        => /\ last.status = Ok
           /\ Len(last.ret) = 2
           /\ (last.ret[1] + last.ret[2]) % s.q_ = (s.secret * r.secret) % s.q_

\* A run over q = 3 with a = b = 2 (product 4, 1 modulo 3) whose first
\* share is not zero.
C1_Witness ==
    \E s \in senders, r \in receivers :
        /\ Called("play")
        /\ last.status = Ok
        /\ s.q_ = 3
        /\ s.secret = 2
        /\ r.secret = 2
        /\ last.ret[1] # 0

(***************************************************************************)
(* C2.                                                                     *)
(***************************************************************************)

\* C2: every vector returned by v() on a poser with secret b and signs t
\* satisfies sum(t[i] * v[i]) mod q = b.
C2_ReconstructionConstraint ==
    \A r \in receivers :
        Called("v") => PyMod(Dot(r.t_, last.ret), r.q_) = r.secret

(***************************************************************************)
(* C3.                                                                     *)
(***************************************************************************)

\* C3: a constructor given a prime q and a secret outside [0, q) fails with
\* SecretOutOfRange, and every party in existence has its secret in [0, q).
C3_SecretRange ==
    /\ (Constructed /\ Prime(last.args[2]) /\ ~InField(last.args[1], last.args[2]))
        => last.status = SecretOutOfRange
    /\ \A s \in senders : InField(s.secret, s.q_)
    /\ \A r \in receivers : InField(r.secret, r.q_)

(***************************************************************************)
(* C4.                                                                     *)
(***************************************************************************)

\* C4: a constructor given a composite q fails with InvalidModulus whatever
\* the secret is, also when the secret is out of range, and no party with a
\* modulus that is not prime exists.
C4_ModulusFirst ==
    /\ (Constructed /\ Composite(last.args[2])) => last.status = InvalidModulus
    /\ \A s \in senders : Prime(s.q_)
    /\ \A r \in receivers : Prime(r.q_)

\* Sender(4, 4), a composite modulus and a secret that is out of range, has
\* failed with InvalidModulus.
C4_Witness ==
    /\ Called("Sender")
    /\ last.args = <<4, 4>>
    /\ last.status = InvalidModulus
    /\ senders = {}

(***************************************************************************)
(* C5.                                                                     *)
(***************************************************************************)

\* C5 as stated: ot(i, t) fails with IndexOutOfRange whenever i >= n and
\* with InvalidSign whenever t is neither 1 nor -1, returning no value
\* (stated of the senders whose secret is in [0, q)).
C5_AsStated ==
    \A s \in senders :
        (Called("ot") /\ InField(s.secret, s.q_)) =>
            /\ last.args[1] >= s.n_
                => (last.status = IndexOutOfRange /\ last.ret = <<>>)
            /\ ~LegalSign(last.args[2])
                => (last.status = InvalidSign /\ last.ret = <<>>)

\* C5 as amended: ot(i, t) fails with IndexOutOfRange whenever i >= n, and
\* with InvalidSign whenever t is neither 1 nor -1 and i < n (the index is
\* checked first); in both cases no value is returned.
C5_QueryValidation ==
    \A s \in senders :
        Called("ot") =>
            /\ last.args[1] >= s.n_
                => (last.status = IndexOutOfRange /\ last.ret = <<>>)
            /\ (~LegalSign(last.args[2]) /\ last.args[1] < s.n_)
                => (last.status = InvalidSign /\ last.ret = <<>>)

\* ot(n, 1), a legal sign at the first index past the end, has failed with
\* IndexOutOfRange.
C5_Witness ==
    \E s \in senders :
        /\ Called("ot")
        /\ last.args = <<s.n_, 1>>
        /\ last.status = IndexOutOfRange

(***************************************************************************)
(* C6.                                                                     *)
(***************************************************************************)

\* C6: for an index i of [0, n) and a sign of {1, -1}, ot returns
\* (a + masks[i]) mod q for the sign 1 and (masks[i] - a) mod q for the
\* sign -1, a value of [0, q).
C6_AnswerValue ==
    \A s \in senders :
        (/\ Called("ot")
         /\ InField(last.args[1], s.n_)
         /\ LegalSign(last.args[2]))
        => /\ last.status = Ok
           /\ Len(last.ret) = 1
           /\ InField(last.ret[1], s.q_)
           /\ last.args[2] = 1
                => last.ret[1] = (s.secret + s.delta_[last.args[1] + 1]) % s.q_
           /\ last.args[2] = -1
                => last.ret[1] = (s.delta_[last.args[1] + 1] - s.secret) % s.q_

\* ot(1, -1) on a sender over q = 3 with secret 1 and mask 2 at index 1 has
\* returned 1.
C6_Witness ==
    \E s \in senders :
        /\ Called("ot")
        /\ last.args = <<1, -1>>
        /\ s.q_ = 3
        /\ s.secret = 1
        /\ s.delta_[2] = 2
        /\ last.ret = <<1>>

(***************************************************************************)
(* C7.                                                                     *)
(***************************************************************************)

\* C7: play on two parties of different moduli fails with InvalidPairing
\* with no query answered, no reconstruction vector drawn and no share
\* produced; and a run returns either both shares or none.
C7_PairingValidation ==
    \A s \in senders, r \in receivers :
        Called("play") =>
            /\ s.q_ # r.q_
                => /\ last.status = InvalidPairing
                   /\ last.z = <<>>
                   /\ last.nv = 0
                   /\ last.ret = <<>>
            /\ IF last.status = Ok THEN Len(last.ret) = 2 ELSE last.ret = <<>>

\* play on a sender over q = 2 and a receiver over q = 3 has failed with
\* InvalidPairing.
C7_Witness ==
    \E s \in senders, r \in receivers :
        /\ Called("play")
        /\ s.q_ = 2
        /\ r.q_ = 3
        /\ last.status = InvalidPairing

(***************************************************************************)
(* C8.                                                                     *)
(***************************************************************************)

\* C8: every mask of a sender, every element of a vector returned by v()
\* and both shares returned by play lie in [0, q).
C8_Ranges ==
    /\ \A s \in senders :
        \A i \in 1 .. Len(s.delta_) : InField(s.delta_[i], s.q_)
    /\ \A r \in receivers :
        Called("v") =>
            /\ Len(last.ret) = r.n_
            /\ \A i \in 1 .. Len(last.ret) : InField(last.ret[i], r.q_)
    /\ \A s \in senders :
        (Called("play") /\ last.status = Ok) =>
            /\ InField(last.ret[1], s.q_)
            /\ InField(last.ret[2], s.q_)

\* v() on a receiver over q = 3 whose secret is 1 and whose signs are all
\* -1 has returned a vector with the element 2.
C8_Witness ==
    \E r \in receivers :
        /\ Called("v")
        /\ r.q_ = 3
        /\ r.secret = 1
        /\ \A i \in 1 .. Len(r.t_) : r.t_[i] = -1
        /\ \E i \in 1 .. Len(last.ret) : last.ret[i] = 2

(***************************************************************************)
(* C9.                                                                     *)
(***************************************************************************)

\* C9: ot(i, t) returns a value only for an index i of [0, n); for every
\* other index, negative ones included, it fails (stated of the senders
\* whose secret is in [0, q)).
C9_NoWraparound ==
    \A s \in senders :
        (Called("ot") /\ InField(s.secret, s.q_) /\ ~InField(last.args[1], s.n_))
            => (last.status # Ok /\ last.ret = <<>>)

(***************************************************************************)
(* C10.                                                                    *)
(***************************************************************************)

\* C10: no step changes a party that exists: after any ot, v or play call,
\* failed or not, and after its return, the secret, q, n, the masks and the
\* signs are what they were, and the masks and the signs have length n.
C10_Frozen ==
    [][/\ senders # {} => senders' = senders
       /\ receivers # {} => receivers' = receivers
       /\ \A s \in senders' : Len(s.delta_) = s.n_
       /\ \A r \in receivers' : Len(r.t_) = r.n_]_vars

\* v() on a receiver with a sender in existence has returned a vector that
\* differs from the receiver's signs.
C10_Witness ==
    \E r \in receivers :
        /\ Called("v")
        /\ senders # {}
        /\ last.ret # r.t_
        /\ Len(r.t_) = r.n_

====
